---- MODULE Spec2Model ----
(***************************************************************************)
(* Model of drivers/gpu/drm/i915/gt/uc/intel_guc_hwconfig.c: the retrieval *)
(* of the GuC hardware configuration table (probe for the size, fetch into *)
(* a scratch vma, copy, validate the KLV records) and its teardown.         *)
(*                                                                         *)
(* Spec          the table's life cycle: intel_guc_hwconfig_init and        *)
(*               intel_guc_hwconfig_fini called by the driver, init being   *)
(*               entered with no table held (struct zeroed, or after fini). *)
(*               A second init on a held table is not part of Spec.         *)
(* SpecAnyOrder  the same with init also entered while a table is held.     *)
(* SpecExample   an init that has copied the example table of the source's  *)
(*               comment, its second length field being 3 or 5, followed by *)
(*               the life cycle.                                            *)
(* SpecValidator verify_hwconfig_blob run on arbitrary buffers, and run     *)
(*               again on a truncation of a buffer it accepted.             *)
(*                                                                         *)
(* All are checked for the two widths of size_t the driver is built with   *)
(* (longBits = 32 or 64): `sizeof(u32) * item->length` is a size_t product. *)
(***************************************************************************)
EXTENDS Integers, Sequences, FiniteSets

(* ------------------------------ bounds --------------------------------- *)

\* Largest table size in bytes the firmware reports in the life cycle model.
MaxBlobBytes == 8

\* Number of distinct addresses kmalloc can hand out.
MaxBufs == 2

\* Longest buffer, in whole u32 words, given to the validator on its own.
MaxWords == 6

(* ------------------------- program constants --------------------------- *)

ENOENT == 2
EIO == 5
ENXIO == 6
ENOMEM == 12
EINVAL == 22

\* sizeof(u32)
SizeofU32 == 4

\* offsetof(struct drm_i915_query_hwconfig_blob_item, data): key + length
min_item_size == 8

\* enum intel_step: STEP_A0 = 0 < STEP_A1 < STEP_A2 < STEP_B0
STEP_A2 == 2

NULL == 0

(* ------------------------------- state --------------------------------- *)

VARIABLES
    dev,        \* device descriptor: [platform, step]
    longBits,   \* width of size_t in this build: 32 or 64
    hwconfig,   \* struct intel_guc_hwconfig: [size, ptr]
    live,       \* addresses handed out by kmalloc and not yet freed
    mem,        \* mem[a]: contents of the buffer at address a
    badFree,    \* a kfree of a pointer that is neither NULL nor live happened
    vma,        \* the scratch region: [held, buf]
    pc,         \* position of the (single) thread of control
    r,          \* the local "ret" of init / fill_buffer
    call,       \* last call made by the driver (see Called)
    log,        \* what the current (or last) init did, in order
    v,          \* locals of verify_hwconfig_blob and what it read
    h           \* who runs the validator: phase 0 = fill_buffer, 1 = a run on
                \* an arbitrary table, 2 = the run on its truncation by `cut`
                \* bytes, `first` being the result of run 1

vars == <<dev, longBits, hwconfig, live, mem, badFree, vma, pc, r, call, log, v, h>>

Addrs == 1..MaxBufs

\* A buffer: its length in bytes and its whole u32 words (the trailing
\* bytes % 4 bytes of an unaligned buffer are never read as a word).
Buf(bytes, words) == [bytes |-> bytes, words |-> words]

NoBuf == Buf(0, <<>>)

(* ---------------------- unsigned machine integers ----------------------- *)

\* TLC's integers stop at 2^31 - 1, so a u32 or u64 VALUE READ FROM THE TABLE
\* is kept exactly as a pair <<hi, lo>> that stands for hi * 2^30 + lo with
\* 0 <= lo < 2^30.  Byte counts of the buffers themselves stay plain
\* integers: they never exceed the buffer length.
B30 == 2^30

ToBig(n) == <<n \div B30, n % B30>>

BigAdd(a, b) == <<a[1] + b[1] + ((a[2] + b[2]) \div B30), (a[2] + b[2]) % B30>>

BigLess(a, b) == a[1] < b[1] \/ (a[1] = b[1] /\ a[2] < b[2])

\* Reduction modulo 2^bits of a value below 2^34 (hi < 16): modulo 2^32 it
\* keeps hi % 4, modulo 2^64 it changes nothing.
BigMod(a, bits) == IF bits = 32 THEN <<a[1] % 4, a[2]>> ELSE a

\* The plain integer a pair below 2^31 stands for.
Small(a) == a[1] * B30 + a[2]

\* The u32 values a table word takes in the model: small word counts,
\* 2^30 (4 * 2^30 = 2^32) and 2^32 - 1.
WordVals == {ToBig(0), ToBig(1), ToBig(2), <<1, 0>>, <<3, B30 - 1>>}

\* The words the firmware writes in the life cycle model.
FwWords == {ToBig(0), ToBig(1), <<1, 0>>}

\* Marks a word of memory that was never written.
Uninit == <<-1, -1>>

UninitBuf(bytes) == Buf(bytes, [i \in 1..(bytes \div SizeofU32) |-> Uninit])

Empty == hwconfig.ptr = NULL /\ hwconfig.size = 0

Populated == hwconfig.ptr # NULL /\ hwconfig.size > 0

(* ----------------------------- the device ------------------------------ *)

Platforms == {"ADL_P", "DG2_G10", "DG2_G11", "TGL"}

\* The steppings on either side of the one has_table tests: STEP_A1, STEP_A2.
Steps == {STEP_A2 - 1, STEP_A2}

\* static bool has_table(struct drm_i915_private *i915)
has_table(d) ==
    IF d.platform = "ADL_P" THEN TRUE
    ELSE IF d.platform = "DG2_G11" \/ (d.platform = "DG2_G10" /\ d.step >= STEP_A2) THEN TRUE
    ELSE FALSE

(* --------------------------- the transport ----------------------------- *)

\* What intel_guc_send_mmio may return for a GET_HWCONFIG action: "no such
\* action" (-ENXIO), another failure, or a non-negative count.
TransportRets == {-ENXIO, -EIO} \cup (0..MaxBlobBytes)

\* Address of the scratch vma in the GGTT (never 0).
GgttOffset == 4096

\* What the firmware can have left in a scratch region of `bytes` bytes.
FwBlobs(bytes) == {Buf(bytes, w) : w \in [1..(bytes \div SizeofU32) -> FwWords]}

\* Mutant: -ENXIO is passed through instead of being turned into -ENOENT.
guc_action_get_hwconfig_raw(ggtt_size, t) ==
    IF ggtt_size = 0 /\ t = 0 THEN -EINVAL ELSE t

\* Mutant: a probe that returns 0 is not turned into -EINVAL.
guc_action_get_hwconfig_nozero(ggtt_size, t) ==
    IF t = -ENXIO THEN -ENOENT ELSE t

\* Mutant: every failure of the transport is reported as "not supported".
guc_action_get_hwconfig_flat(ggtt_size, t) ==
    IF t < 0 THEN -ENOENT
    ELSE IF ggtt_size = 0 /\ t = 0 THEN -EINVAL
    ELSE t

\* Mutant: a result of 0 is invalid for the fetch as well as for the probe.
guc_action_get_hwconfig_zeroall(ggtt_size, t) ==
    IF t = -ENXIO THEN -ENOENT
    ELSE IF t = 0 THEN -EINVAL
    ELSE t

\* __guc_action_get_hwconfig: its return value, given the capacity it sent
\* and what intel_guc_send_mmio returned.
guc_action_get_hwconfig(ggtt_size, t) ==
    IF t = -ENXIO THEN -ENOENT
    ELSE IF ggtt_size = 0 /\ t = 0 THEN -EINVAL
    ELSE t

(* ------------------------------ the log -------------------------------- *)

\* One step of an init: a request sent to the firmware ("send", arg =
\* <<ggtt_offset, ggtt_size>>, raw = what intel_guc_send_mmio returned, res =
\* what __guc_action_get_hwconfig returned), "kmalloc", "vma" (scratch
\* acquired), "memcpy" (arg = <<byte count, 0>>, res = the words read from
\* the scratch region), "verify", "release" (scratch released) or "kfree".
Ev(op, arg, raw, res) == [op |-> op, arg |-> arg, raw |-> raw, res |-> res]

Logged(e) == log' = Append(log, e)

(* ------------------------------- calls --------------------------------- *)

\* The driver's call: the operation and the one before it, the table and
\* the live buffers as the call found them, what it returned.
Called(op, done) == call' = [op |-> op, prev |-> call.op, size |-> hwconfig.size,
                             ptr |-> hwconfig.ptr, live |-> live, ret |-> 0,
                             done |-> done]

NoCall == [op |-> "none", prev |-> "none", size |-> 0, ptr |-> NULL, live |-> {},
           ret |-> 0, done |-> TRUE]

\* The call returns `rv` to the driver.
Return(rv) == /\ pc' = "idle"
              /\ call' = [call EXCEPT !.ret = rv, !.done = TRUE]

\* kfree(p)
kfree(p) ==
    IF p = NULL THEN UNCHANGED <<live, mem, badFree>>
    ELSE IF p \in live
         THEN /\ live' = live \ {p}
              /\ mem' = [mem EXCEPT ![p] = NoBuf]
              /\ UNCHANGED badFree
         ELSE /\ badFree' = TRUE
              /\ UNCHANGED <<live, mem>>

\* Mutant: fini resets the fields and forgets the kfree.
intel_guc_hwconfig_fini_nofree ==
    /\ hwconfig' = [size |-> 0, ptr |-> NULL]
    /\ UNCHANGED <<live, mem, badFree>>

\* Mutant: fini forgets `hwconfig->ptr = NULL`.
intel_guc_hwconfig_fini_keepptr ==
    /\ kfree(hwconfig.ptr)
    /\ hwconfig' = [hwconfig EXCEPT !.size = 0]

\* void intel_guc_hwconfig_fini(struct intel_guc_hwconfig *hwconfig)
intel_guc_hwconfig_fini ==
    /\ kfree(hwconfig.ptr)
    /\ hwconfig' = [size |-> 0, ptr |-> NULL]

\* The driver calls intel_guc_hwconfig_fini.
FiniCall ==
    /\ pc = "idle"
    /\ intel_guc_hwconfig_fini
    /\ Called("fini", TRUE)
    /\ UNCHANGED <<dev, longBits, vma, pc, r, log, v, h>>

(* -------------------- intel_guc_hwconfig_init, by step ------------------ *)

\* Mutant: init does not consult has_table.
InitEnter_nogate ==
    /\ pc = "idle"
    /\ log' = <<>>
    /\ pc' = "discover"
    /\ Called("init", FALSE)
    /\ UNCHANGED <<dev, longBits, hwconfig, live, mem, badFree, vma, r, v, h>>

\* Entry and the capability gate: if (!has_table(i915)) return 0;
InitEnter ==
    /\ pc = "idle"
    /\ log' = <<>>
    /\ IF ~has_table(dev)
       THEN /\ pc' = "idle"
            /\ Called("init", TRUE)
       ELSE /\ pc' = "discover"
            /\ Called("init", FALSE)
    /\ UNCHANGED <<dev, longBits, hwconfig, live, mem, badFree, vma, r, v, h>>

\* Mutant: only "not supported" ends init, another failure does not.
DiscoverFailed_enoent(ret) == ret = -ENOENT

\* The test `if (ret < 0) return ret;` of guc_hwconfig_discover_size and
\* `if (ret) return ret;` of its caller: the probe's result ends init.
DiscoverFailed(ret) == ret < 0

\* guc_hwconfig_discover_size and init's test of its result.
DiscoverSize ==
    /\ pc = "discover"
    /\ \E t \in TransportRets :
         LET ret == guc_action_get_hwconfig(0, t) IN
         /\ Logged(Ev("send", <<0, 0>>, t, ret))
         /\ r' = ret
         /\ IF DiscoverFailed(ret)
            THEN /\ Return(ret)
                 /\ UNCHANGED hwconfig
            ELSE /\ hwconfig' = [hwconfig EXCEPT !.size = ret]
                 /\ pc' = "kmalloc"
                 /\ UNCHANGED call
    /\ UNCHANGED <<dev, longBits, live, mem, badFree, vma, v, h>>

\* Mutant: a failed kmalloc leaves the discovered size in the struct.
Kmalloc_keepsize ==
    /\ pc = "kmalloc"
    /\ \E a \in {NULL} \cup (Addrs \ live) :
         /\ Logged(Ev("kmalloc", <<hwconfig.size, 0>>, 0, a))
         /\ IF a = NULL
            THEN /\ hwconfig' = [hwconfig EXCEPT !.ptr = NULL]
                 /\ Return(-ENOMEM)
                 /\ UNCHANGED <<live, mem>>
            ELSE /\ hwconfig' = [hwconfig EXCEPT !.ptr = a]
                 /\ live' = live \cup {a}
                 /\ mem' = [mem EXCEPT ![a] = UninitBuf(hwconfig.size)]
                 /\ pc' = "fill_vma"
                 /\ UNCHANGED call
    /\ UNCHANGED <<dev, longBits, badFree, vma, r, v, h>>

\* hwconfig->ptr = kmalloc(hwconfig->size, GFP_KERNEL), which may fail.
Kmalloc ==
    /\ pc = "kmalloc"
    /\ \E a \in {NULL} \cup (Addrs \ live) :
         /\ Logged(Ev("kmalloc", <<hwconfig.size, 0>>, 0, a))
         /\ IF a = NULL
            THEN /\ hwconfig' = [size |-> 0, ptr |-> NULL]
                 /\ Return(-ENOMEM)
                 /\ UNCHANGED <<live, mem>>
            ELSE /\ hwconfig' = [hwconfig EXCEPT !.ptr = a]
                 /\ live' = live \cup {a}
                 /\ mem' = [mem EXCEPT ![a] = UninitBuf(hwconfig.size)]
                 /\ pc' = "fill_vma"
                 /\ UNCHANGED call
    /\ UNCHANGED <<dev, longBits, badFree, vma, r, v, h>>

\* guc_hwconfig_fill_buffer: intel_guc_allocate_and_map_vma, which may fail.
FillAllocVma ==
    /\ pc = "fill_vma"
    /\ \E e \in {0, -ENOMEM} :
         /\ Logged(Ev("vma", <<hwconfig.size, 0>>, 0, e))
         /\ r' = e
         /\ IF e # 0
            THEN /\ pc' = "fill_ret"
                 /\ UNCHANGED vma
            ELSE /\ pc' = "fill_fetch"
                 /\ vma' = [held |-> TRUE, buf |-> UninitBuf(hwconfig.size)]
    /\ UNCHANGED <<dev, longBits, hwconfig, live, mem, badFree, call, v, h>>

\* The test `if (ret >= 0)` that guards the copy and the validation.
FetchOk(ret) == ret >= 0

\* Mutant: a failed fetch returns at once, without releasing the scratch.
FillFetch_earlyret ==
    /\ pc = "fill_fetch"
    /\ \E t \in TransportRets, b \in FwBlobs(hwconfig.size) :
         LET ret == guc_action_get_hwconfig(hwconfig.size, t) IN
         /\ Logged(Ev("send", <<GgttOffset, hwconfig.size>>, t, ret))
         /\ r' = ret
         /\ IF FetchOk(ret)
            THEN /\ vma' = [vma EXCEPT !.buf = b]
                 /\ pc' = "fill_memcpy"
            ELSE /\ UNCHANGED vma
                 /\ pc' = "fill_ret"
    /\ UNCHANGED <<dev, longBits, hwconfig, live, mem, badFree, call, v, h>>

\* Mutant: a failed fetch is sent again.
FillFetch_retry ==
    /\ pc = "fill_fetch"
    /\ \E t \in TransportRets, b \in FwBlobs(hwconfig.size) :
         LET ret == guc_action_get_hwconfig(hwconfig.size, t) IN
         /\ Logged(Ev("send", <<GgttOffset, hwconfig.size>>, t, ret))
         /\ r' = ret
         /\ IF FetchOk(ret)
            THEN /\ vma' = [vma EXCEPT !.buf = b]
                 /\ pc' = "fill_memcpy"
            ELSE /\ UNCHANGED vma
                 /\ pc' = "fill_fetch"
    /\ UNCHANGED <<dev, longBits, hwconfig, live, mem, badFree, call, v, h>>

\* guc_hwconfig_fill_buffer: the fetch request; the firmware is free to
\* write any bytes into the scratch region.
FillFetch ==
    /\ pc = "fill_fetch"
    /\ \E t \in TransportRets, b \in FwBlobs(hwconfig.size) :
         LET ret == guc_action_get_hwconfig(hwconfig.size, t) IN
         /\ Logged(Ev("send", <<GgttOffset, hwconfig.size>>, t, ret))
         /\ r' = ret
         /\ IF FetchOk(ret)
            THEN /\ vma' = [vma EXCEPT !.buf = b]
                 /\ pc' = "fill_memcpy"
            ELSE /\ UNCHANGED vma
                 /\ pc' = "fill_release"
    /\ UNCHANGED <<dev, longBits, hwconfig, live, mem, badFree, call, v, h>>

\* memcpy(hwconfig->ptr, vaddr, hwconfig->size), then verify_hwconfig_blob.
FillMemcpy ==
    /\ pc = "fill_memcpy"
    /\ Logged(Ev("memcpy", <<hwconfig.size, 0>>, 0, vma.buf.words))
    /\ mem' = [mem EXCEPT ![hwconfig.ptr] = Buf(hwconfig.size, vma.buf.words)]
    /\ pc' = "verify_entry"
    /\ UNCHANGED <<dev, longBits, hwconfig, live, badFree, vma, r, call, v, h>>

(* ------------------------- verify_hwconfig_blob ------------------------ *)

\* The locals of verify_hwconfig_blob, with what the run read and did:
\* reads = byte offsets at which a u32 was read from the buffer, iters =
\* loop iterations begun, recs = <<offset, item_size>> of each record passed.
VInit == [offset |-> 0, remaining |-> 0, item |-> 0, item_size |-> ToBig(0),
          ret |-> 0, fail |-> "none", reads |-> {}, iters |-> 0, recs |-> <<>>]

\* The table being validated: hwconfig->ptr, hwconfig->size bytes long.
Blob == mem[hwconfig.ptr]

\* IS_ALIGNED(x, a)
IS_ALIGNED(x, a) == x % a = 0

\* The u32 at byte offset `off` of buffer b.  A read outside the buffer,
\* or of memory never written, yields any value.
ReadWord(b, off) ==
    IF /\ off >= 0
       /\ off % SizeofU32 = 0
       /\ off + SizeofU32 <= b.bytes
       /\ (off \div SizeofU32) + 1 <= Len(b.words)
       /\ b.words[(off \div SizeofU32) + 1] # Uninit
    THEN {b.words[(off \div SizeofU32) + 1]}
    ELSE WordVals

\* sizeof(u32) * item->length, a size_t product: it wraps modulo 2^32
\* where size_t is 32 bits wide.
MulSizeofU32(L, bits) == BigMod(BigAdd(BigAdd(L, L), BigAdd(L, L)), bits)

\* Mutant: the record size leaves out the header.
ItemSize_noheader(L, bits) == MulSizeofU32(L, bits)

\* Mutant: the record size leaves out the value words.
ItemSize_nolen(L, bits) == ToBig(min_item_size)

\* item_size = min_item_size + sizeof(u32) * item->length, a u64 sum.
ItemSize(L, bits) == BigAdd(ToBig(min_item_size), MulSizeofU32(L, bits))

\* (void *)&item->data[item->length], as a byte offset from the start of
\* the buffer: pointer arithmetic, modulo the pointer width.
NextItem(item, L, bits) ==
    BigMod(BigAdd(ToBig(item + min_item_size), BigAdd(BigAdd(L, L), BigAdd(L, L))), bits)

\* The test `remaining < min_item_size`.
NoRoomForHeader(remaining) == remaining < min_item_size

\* Mutant: the room test lets a record overrun the buffer by one word.
NoRoomForData_slack(item_size, remaining) ==
    BigLess(ToBig(remaining + SizeofU32), item_size)

\* The test `item_size > remaining`.
NoRoomForData(item_size, remaining) == BigLess(ToBig(remaining), item_size)

\* Mutant: the alignment test is missing.
Unaligned_never(size) == FALSE

\* The test `!IS_ALIGNED(hwconfig->size, sizeof(u32))`.
Unaligned(size) == ~IS_ALIGNED(size, SizeofU32)

\* Entry of verify_hwconfig_blob, up to the alignment test.
VerifyEntry ==
    /\ pc = "verify_entry"
    /\ IF Unaligned(hwconfig.size)
       THEN /\ v' = [VInit EXCEPT !.remaining = hwconfig.size,
                                  !.ret = -EINVAL, !.fail = "unaligned"]
            /\ pc' = "verify_done"
       ELSE /\ v' = [VInit EXCEPT !.remaining = hwconfig.size]
            /\ pc' = "verify_loop"
    /\ UNCHANGED <<dev, longBits, hwconfig, live, mem, badFree, vma, r, call, log, h>>

\* One iteration of `while (offset < hwconfig->size)`.
VerifyIter ==
    /\ pc = "verify_loop"
    /\ v.offset < hwconfig.size
    /\ IF NoRoomForHeader(v.remaining)
       THEN /\ v' = [v EXCEPT !.ret = -EINVAL, !.fail = "no_room_header",
                              !.iters = @ + 1]
            /\ pc' = "verify_done"
       ELSE \E L \in ReadWord(Blob, v.item + SizeofU32) :
              LET isz == ItemSize(L, longBits) IN
              IF NoRoomForData(isz, v.remaining)
              THEN /\ v' = [v EXCEPT !.ret = -EINVAL, !.fail = "no_room_data",
                                     !.item_size = isz, !.iters = @ + 1,
                                     !.reads = @ \cup {v.item + SizeofU32}]
                   /\ pc' = "verify_done"
              ELSE /\ v' = [v EXCEPT !.item_size = isz,
                                     !.offset = @ + Small(isz),
                                     !.remaining = @ - Small(isz),
                                     !.item = Small(NextItem(v.item, L, longBits)),
                                     !.iters = @ + 1,
                                     !.reads = @ \cup {v.item + SizeofU32},
                                     !.recs = Append(@, <<v.offset, Small(isz)>>)]
                   /\ pc' = "verify_loop"
    /\ UNCHANGED <<dev, longBits, hwconfig, live, mem, badFree, vma, r, call, log, h>>

\* The loop ends: return 0.
VerifyExit ==
    /\ pc = "verify_loop"
    /\ ~(v.offset < hwconfig.size)
    /\ pc' = "verify_done"
    /\ UNCHANGED <<dev, longBits, hwconfig, live, mem, badFree, vma, r, call, log, v, h>>

(* ------------------ guc_hwconfig_fill_buffer, continued ---------------- *)

\* Mutant: the validator's verdict is not turned into a failure.
FillVerified_ignore ==
    /\ pc = "verify_done"
    /\ h.phase = 0
    /\ Logged(Ev("verify", <<hwconfig.size, 0>>, 0, v.ret))
    /\ r' = r
    /\ pc' = "fill_release"
    /\ UNCHANGED <<dev, longBits, hwconfig, live, mem, badFree, vma, call, v, h>>

\* if (verify_hwconfig_blob(hwconfig)) ret = -EINVAL;
FillVerified ==
    /\ pc = "verify_done"
    /\ h.phase = 0
    /\ Logged(Ev("verify", <<hwconfig.size, 0>>, 0, v.ret))
    /\ r' = IF v.ret # 0 THEN -EINVAL ELSE r
    /\ pc' = "fill_release"
    /\ UNCHANGED <<dev, longBits, hwconfig, live, mem, badFree, vma, call, v, h>>

\* i915_vma_unpin_and_release(&vma, I915_VMA_RELEASE_MAP); return ret;
FillRelease ==
    /\ pc = "fill_release"
    /\ Logged(Ev("release", <<0, 0>>, 0, 0))
    /\ vma' = [held |-> FALSE, buf |-> NoBuf]
    /\ pc' = "fill_ret"
    /\ UNCHANGED <<dev, longBits, hwconfig, live, mem, badFree, r, call, v, h>>

\* The test `if (ret < 0)` on what guc_hwconfig_fill_buffer returned.
FillFailed(ret) == ret < 0

\* init after guc_hwconfig_fill_buffer returned r.
InitAfterFill ==
    /\ pc = "fill_ret"
    /\ IF FillFailed(r)
       THEN /\ intel_guc_hwconfig_fini
            /\ Logged(Ev("kfree", <<hwconfig.ptr, 0>>, 0, 0))
            /\ Return(r)
       ELSE /\ Return(0)
            /\ UNCHANGED <<hwconfig, live, mem, badFree, log>>
    /\ UNCHANGED <<dev, longBits, vma, r, v, h>>

(* --------------------------- the life cycle ---------------------------- *)

Devices == [platform : Platforms, step : Steps]

NoHarness == [phase |-> 0, cut |-> 0, first |-> VInit]

Init ==
    /\ dev \in Devices
    /\ longBits \in {32, 64}
    /\ hwconfig = [size |-> 0, ptr |-> NULL]
    /\ live = {}
    /\ mem = [a \in Addrs |-> NoBuf]
    /\ badFree = FALSE
    /\ vma = [held |-> FALSE, buf |-> NoBuf]
    /\ pc = "idle"
    /\ r = 0
    /\ call = NoCall
    /\ log = <<>>
    /\ v = VInit
    /\ h = NoHarness

\* The driver calls init with no table held: on a zeroed struct, after a
\* failed or skipped init, or after fini.
DriverInit == Empty /\ InitEnter

Next ==
    \/ DriverInit
    \/ DiscoverSize
    \/ Kmalloc
    \/ FillAllocVma
    \/ FillFetch
    \/ FillMemcpy
    \/ VerifyEntry
    \/ VerifyIter
    \/ VerifyExit
    \/ FillVerified
    \/ FillRelease
    \/ InitAfterFill
    \/ FiniCall

Spec == Init /\ [][Next]_vars

(* ----------------- the two entry points in any order ------------------- *)

\* The driver calls init and fini in any order: init is also entered while
\* a table is held.
NextAnyOrder ==
    \/ InitEnter
    \/ DiscoverSize
    \/ Kmalloc
    \/ FillAllocVma
    \/ FillFetch
    \/ FillMemcpy
    \/ VerifyEntry
    \/ VerifyIter
    \/ VerifyExit
    \/ FillVerified
    \/ FillRelease
    \/ InitAfterFill
    \/ FiniCall

SpecAnyOrder == Init /\ [][NextAnyOrder]_vars

(* ------------------ the validator on arbitrary buffers ----------------- *)

\* The buffer b cut to its first `bytes` bytes.
Truncated(b, bytes) == Buf(bytes, SubSeq(b.words, 1, bytes \div SizeofU32))

\* verify_hwconfig_blob is entered on a table of any length and contents:
\* at most MaxWords whole words, plus 0..3 trailing bytes.
InitValidator ==
    /\ dev = [platform |-> "ADL_P", step |-> STEP_A2]
    /\ longBits \in {32, 64}
    /\ \E n \in 0..MaxWords, e \in 0..(SizeofU32 - 1) :
         \E w \in [1..n -> WordVals] :
           /\ hwconfig = [size |-> SizeofU32 * n + e, ptr |-> 1]
           /\ mem = [a \in Addrs |-> IF a = 1 THEN Buf(SizeofU32 * n + e, w) ELSE NoBuf]
    /\ live = {1}
    /\ badFree = FALSE
    /\ vma = [held |-> FALSE, buf |-> NoBuf]
    /\ pc = "verify_entry"
    /\ r = 0
    /\ call = NoCall
    /\ log = <<>>
    /\ v = VInit
    /\ h = [phase |-> 1, cut |-> 0, first |-> VInit]

\* After the validator accepted a table, it is run again on the same table
\* with its last `cut` bytes removed.
RunTruncated ==
    /\ pc = "verify_done"
    /\ h.phase = 1
    /\ v.ret = 0
    /\ \E cut \in 1..hwconfig.size :
         /\ h' = [phase |-> 2, cut |-> cut, first |-> v]
         /\ hwconfig' = [hwconfig EXCEPT !.size = @ - cut]
         /\ mem' = [mem EXCEPT ![hwconfig.ptr] = Truncated(@, hwconfig.size - cut)]
    /\ v' = VInit
    /\ pc' = "verify_entry"
    /\ UNCHANGED <<dev, longBits, live, badFree, vma, r, call, log>>

NextValidator ==
    \/ VerifyEntry
    \/ VerifyIter
    \/ VerifyExit
    \/ RunTruncated

SpecValidator == InitValidator /\ [][NextValidator]_vars

(* ------------------- the example table of the source ------------------- *)

\* enum device_attr of the example in the source's comment.
ATTR_SOME_VALUE == 0

ATTR_SOME_MASK == 1

\* The value words of the example (8, 0xFFFFFFFF, 0xFF000000) and the other
\* values a word takes in the model.
ExampleValues == WordVals \cup {ToBig(8), <<3, B30 - 1>>, <<3, 1056964608>>}

\* static const u32 hwconfig[]: record ATTR_SOME_VALUE with one value word,
\* record ATTR_SOME_MASK with three, the length field of the second being
\* lenB (3 in the source).
ExampleTable(lenB, val) ==
    << ToBig(ATTR_SOME_VALUE), ToBig(1), val[1],
       ToBig(ATTR_SOME_MASK), ToBig(lenB), val[2], val[3], val[4] >>

\* intel_guc_hwconfig_init, called on a zeroed struct, has come to line 131:
\* the probe returned the size of the example table, kmalloc returned
\* address 1, the scratch was acquired, the fetch returned 0 and the table
\* the firmware wrote was copied.  The firmware wrote the example with a
\* length field of 3 or of 5 in its second record, and any value words.
InitExample ==
    /\ dev = [platform |-> "ADL_P", step |-> STEP_A2]
    /\ longBits \in {32, 64}
    /\ \E lenB \in {3, 5}, val \in [1..4 -> ExampleValues] :
         LET w == ExampleTable(lenB, val)
             n == SizeofU32 * Len(w)
         IN /\ hwconfig = [size |-> n, ptr |-> 1]
            /\ mem = [a \in Addrs |-> IF a = 1 THEN Buf(n, w) ELSE NoBuf]
            /\ vma = [held |-> TRUE, buf |-> Buf(n, w)]
            /\ log = << Ev("send", <<0, 0>>, n, n),
                        Ev("kmalloc", <<n, 0>>, 0, 1),
                        Ev("vma", <<n, 0>>, 0, 0),
                        Ev("send", <<GgttOffset, n>>, 0, 0),
                        Ev("memcpy", <<n, 0>>, 0, w) >>
    /\ live = {1}
    /\ badFree = FALSE
    /\ pc = "verify_entry"
    /\ r = 0
    /\ call = [NoCall EXCEPT !.op = "init", !.done = FALSE]
    /\ v = VInit
    /\ h = NoHarness

\* That init runs to its end and the driver goes on with the life cycle.
SpecExample == InitExample /\ [][Next]_vars

(* ======================================================================= *)
(*                               the claims                                *)
(* ======================================================================= *)

\* An init call has returned to the driver.
InitReturned == call.op = "init" /\ call.done

IsProbe(e) == e.op = "send" /\ e.arg = <<0, 0>>

IsFetch(e) == e.op = "send" /\ e.arg # <<0, 0>>

\* The init that returned sent the probe and the transport answered `t`.
ProbeAnswered(t) ==
    InitReturned /\ has_table(dev) /\ Len(log) >= 1 /\ IsProbe(log[1]) /\ log[1].raw = t

\* No buffer was allocated by, or is left over from, the last call.
NothingAllocated == live = call.live /\ \A i \in DOMAIN log : log[i].op # "kmalloc"

(* C1 as stated: with the gate true and the probe answered -ENXIO, init     *)
(* returns success and the table is Empty.                                 *)
C1_Original == ProbeAnswered(-ENXIO) => (call.ret = 0 /\ Empty)

(* C1 as the code has it: with the gate true and the probe answered -ENXIO, *)
(* init returns -ENOENT (a failure, but not the transport's own code),      *)
(* nothing after the probe is done, no buffer is allocated and the table is *)
(* Empty.                                                                   *)
C1_NotPresentIsENOENT ==
    ProbeAnswered(-ENXIO) =>
        /\ call.ret = -ENOENT
        /\ Len(log) = 1
        /\ NothingAllocated
        /\ Empty

C1_Witness == ProbeAnswered(-ENXIO) /\ call.ret = -ENOENT

(* C2: when has_table is false, init returns 0, the table is Empty, and     *)
(* that init sent no firmware request, acquired no scratch region and       *)
(* allocated no buffer.                                                     *)
C2_GateFalse ==
    (InitReturned /\ ~has_table(dev)) =>
        /\ call.ret = 0
        /\ Empty
        /\ log = <<>>
        /\ NothingAllocated
        /\ ~vma.held

C2_Witness == InitReturned /\ ~has_table(dev) /\ call.prev = "init"

(* C3: when the probe (address 0, capacity 0) is answered 0, init fails     *)
(* with -EINVAL; no buffer is allocated, no fetch is sent, the table is     *)
(* Empty.                                                                   *)
C3_ProbeZeroInvalid ==
    ProbeAnswered(0) =>
        /\ call.ret = -EINVAL
        /\ Len(log) = 1
        /\ NothingAllocated
        /\ Empty

C3_Witness == ProbeAnswered(0) /\ call.ret = -EINVAL

(* C4: whenever init returns a failure, at whichever stage, the table is    *)
(* Empty (ptr NULL, size 0) and every buffer that init allocated has been   *)
(* freed.                                                                   *)
C4_FailureLeavesEmpty ==
    (InitReturned /\ call.ret < 0) =>
        /\ hwconfig.ptr = NULL
        /\ hwconfig.size = 0
        /\ \A i \in DOMAIN log :
             (log[i].op = "kmalloc" /\ log[i].res # NULL) => log[i].res \notin live

\* The stage at which the init that returned failed.
FailedAt(op) == InitReturned /\ call.ret < 0 /\ \E i \in DOMAIN log :
                    /\ log[i].op = op
                    /\ \A j \in DOMAIN log : j > i => log[j].op \in {"release", "kfree"}

\* A failure of the last stage: the validator rejected the copied table.
C4_Witness == FailedAt("verify") /\ call.ret = -EINVAL

(* C5: fini, from any state (before any init, after a failed, skipped or    *)
(* successful init, after another fini), leaves the table Empty, frees the  *)
(* table's buffer and nothing else, never frees a pointer twice, and on an  *)
(* Empty table frees nothing.                                               *)
C5_FiniIdempotent ==
    /\ ~badFree
    /\ call.op = "fini" =>
        /\ Empty
        /\ live = call.live \ {call.ptr}
        /\ (call.ptr = NULL /\ call.size = 0) => live = call.live

\* A second fini in a row, the first having freed a validated table.
C5_Witness ==
    /\ call.op = "fini" /\ call.prev = "fini"
    /\ \E i \in DOMAIN log : log[i].op = "verify" /\ log[i].res = 0

(* C10: in every init the fetch is sent only after the probe returned a     *)
(* strictly positive size, with exactly that size as its capacity; and      *)
(* after a step failed (gate, probe, kmalloc, scratch, fetch, validation)   *)
(* nothing but the release of the scratch region and the kfree follows.     *)
StepFailed(e) ==
    \/ e.op = "send" /\ e.res < 0
    \/ e.op = "kmalloc" /\ e.res = NULL
    \/ e.op = "vma" /\ e.res # 0
    \/ e.op = "verify" /\ e.res # 0

C10_FetchAfterProbe ==
    /\ ~has_table(dev) => log = <<>>
    /\ \A i \in DOMAIN log :
         /\ IsFetch(log[i]) =>
              \E j \in 1..(i - 1) :
                 /\ IsProbe(log[j])
                 /\ log[j].res > 0
                 /\ log[i].arg[2] = log[j].res
         /\ StepFailed(log[i]) =>
              \A j \in DOMAIN log : j > i => log[j].op \in {"release", "kfree"}

\* An init that fetched, copied and validated the table.
C10_Witness ==
    /\ InitReturned /\ call.ret = 0 /\ Populated
    /\ \E i \in DOMAIN log : IsFetch(log[i]) /\ log[i].arg[2] = hwconfig.size

(* ----------------------- claims on the life cycle, continued ------------ *)

\* Event i of the log is a successful acquisition of the scratch region.
ScratchAcquired(i) == log[i].op = "vma" /\ log[i].res = 0

\* The releases of the scratch region logged after event i.
Releases(i) == {j \in DOMAIN log : j > i /\ log[j].op = "release"}

\* guc_hwconfig_fill_buffer has returned to init (or init to the driver).
FetchStepReturned == pc \in {"fill_ret", "idle"}

(* C11: every scratch region acquired by guc_hwconfig_fill_buffer is        *)
(* released exactly once before it returns (fetch failed, validation       *)
(* failed, or success), a release follows an acquisition, no scratch is    *)
(* held when init has returned, and after the release the scratch is       *)
(* neither handed to the firmware nor copied from.                         *)
C11_ScratchReleasedOnce ==
    /\ \A i \in DOMAIN log :
         /\ ScratchAcquired(i) =>
              /\ Cardinality(Releases(i)) <= 1
              /\ FetchStepReturned => Cardinality(Releases(i)) = 1
              /\ vma.held <=> Releases(i) = {}
         /\ log[i].op = "release" =>
              /\ \E j \in 1..(i - 1) : ScratchAcquired(j)
              /\ \A k \in DOMAIN log : k > i => log[k].op \notin {"send", "memcpy"}
    /\ pc = "idle" => ~vma.held
    /\ pc \in {"fill_fetch", "fill_memcpy"} => vma.held

\* An init whose fetch request failed after the scratch was acquired.
C11_Witness ==
    /\ InitReturned
    /\ \E i \in DOMAIN log : ScratchAcquired(i) /\ Cardinality(Releases(i)) = 1
    /\ \E i \in DOMAIN log : IsFetch(log[i]) /\ log[i].res < 0

\* Event i of the log is the copy out of the scratch region.
IsCopy(i) == log[i].op = "memcpy"

(* C12: when init has returned, the table is Populated only if in that      *)
(* init the probe returned a positive size, the fetch returned a            *)
(* non-negative value and the validator accepted the copy; the stored size  *)
(* is the probed size, the buffer holds exactly that many bytes, those      *)
(* copied from the scratch region; otherwise the table is Empty, so no      *)
(* unvalidated or rejected table is visible.                                *)
C12_PopulatedOnlyIfValidated ==
    /\ (InitReturned /\ Populated) =>
         /\ call.ret = 0
         /\ Len(log) >= 1 /\ IsProbe(log[1]) /\ log[1].res > 0
         /\ hwconfig.size = log[1].res
         /\ \E i \in DOMAIN log : IsFetch(log[i]) /\ log[i].res >= 0
         /\ hwconfig.ptr \in live
         /\ \E i \in DOMAIN log :
              /\ IsCopy(i)
              /\ log[i].arg[1] = hwconfig.size
              /\ Blob = Buf(hwconfig.size, log[i].res)
              /\ \E j \in DOMAIN log : j > i /\ log[j].op = "verify" /\ log[j].res = 0
         /\ \A i \in DOMAIN log : log[i].op = "verify" => log[i].res = 0
    /\ InitReturned => (Empty \/ Populated)
    /\ (vma.held /\ \E i \in DOMAIN log : IsCopy(i)) => Blob = Buf(hwconfig.size, vma.buf.words)

\* An init that left a validated table of two words.
C12_Witness ==
    /\ InitReturned /\ Populated
    /\ hwconfig.size = 2 * SizeofU32
    /\ \E i \in DOMAIN log : IsCopy(i) /\ Blob.words = log[i].res

\* The transport failed request e with a code other than "no such action".
TransportFailure(e) == e.op = "send" /\ e.raw < 0 /\ e.raw # -ENXIO

(* C13: when the transport answers the probe or the fetch with a negative   *)
(* code e other than -ENXIO, __guc_action_get_hwconfig returns e, nothing   *)
(* but the release of the scratch and the kfree follows, and init returns   *)
(* exactly e with the table Empty and no buffer left allocated.            *)
C13_TransportFailureSurfaced ==
    \A i \in DOMAIN log :
        TransportFailure(log[i]) =>
            /\ log[i].res = log[i].raw
            /\ \A j \in DOMAIN log : j > i => log[j].op \in {"release", "kfree"}
            /\ InitReturned =>
                 /\ call.ret = log[i].raw
                 /\ Empty
                 /\ live = call.live

\* An init whose fetch request failed with -EIO.
C13_Witness ==
    /\ InitReturned
    /\ call.ret = -EIO
    /\ \E i \in DOMAIN log : IsFetch(log[i]) /\ TransportFailure(log[i])

\* Event i of the log is a kmalloc that returned NULL.
KmallocFailed(i) == log[i].op = "kmalloc" /\ log[i].res = NULL

(* C14: when kmalloc fails after a successful size discovery, init returns  *)
(* -ENOMEM, the size is reset to 0 and the pointer is NULL, and that init   *)
(* neither acquires a scratch region nor sends a fetch request.             *)
C14_KmallocFailure ==
    \A i \in DOMAIN log :
        KmallocFailed(i) =>
            /\ i = 2 /\ IsProbe(log[1]) /\ log[1].res > 0
            /\ log[i].arg[1] = log[1].res
            /\ Len(log) = 2
            /\ pc = "idle"
            /\ hwconfig.size = 0 /\ hwconfig.ptr = NULL
            /\ ~vma.held
            /\ InitReturned => (call.ret = -ENOMEM /\ live = call.live)
            /\ \A j \in DOMAIN log : log[j].op # "vma" /\ ~IsFetch(log[j])

\* kmalloc failed for a table of two words.
C14_Witness ==
    /\ InitReturned
    /\ call.ret = -ENOMEM
    /\ \E i \in DOMAIN log : KmallocFailed(i) /\ log[i].arg[1] = 2 * SizeofU32

\* The requests one init sent to the firmware, by position in the log.
Probes == {i \in DOMAIN log : IsProbe(log[i])}

Fetches == {i \in DOMAIN log : IsFetch(log[i])}

(* C15: one init sends at most one probe and at most one fetch, the probe   *)
(* being the first thing it does and the fetch coming after it, whatever    *)
(* the transport answers: no request is sent a second time.                 *)
C15_NoRetry ==
    /\ Cardinality(Probes) <= 1
    /\ Cardinality(Fetches) <= 1
    /\ Probes \subseteq {1}
    /\ Fetches # {} => Probes = {1}
    /\ \A i \in Probes \cup Fetches :
         log[i].res < 0 => \A j \in DOMAIN log : j > i => log[j].op # "send"

\* An init that sent both requests, the second of which failed.
C15_Witness ==
    /\ InitReturned
    /\ Cardinality(Probes) = 1 /\ Cardinality(Fetches) = 1
    /\ \E i \in Fetches : log[i].res < 0

(* C18: a fetch (non-zero capacity) that the transport answers with 0 or   *)
(* any other non-negative value is a success: the value is returned as it   *)
(* is, the next step copies exactly the discovered number of bytes from the *)
(* scratch region into the buffer whatever that value was, and the step     *)
(* after it validates the copy.                                             *)
C18_FetchZeroIsSuccess ==
    \A i \in Fetches :
        log[i].raw >= 0 =>
            /\ log[i].arg[2] # 0
            /\ log[i].res = log[i].raw
            /\ Len(log) > i =>
                 /\ IsCopy(i + 1)
                 /\ log[i + 1].arg[1] = log[1].res
                 /\ Len(log[i + 1].res) = log[1].res \div SizeofU32
                 /\ vma.held => Blob = Buf(log[1].res, log[i + 1].res)
            /\ Len(log) > i + 1 =>
                 /\ log[i + 2].op = "verify"
                 /\ log[i + 2].arg[1] = log[1].res
            /\ FetchStepReturned => Len(log) > i + 1

\* The fetch of a two-word table returned 0 and the table was kept.
C18_Witness ==
    /\ InitReturned /\ call.ret = 0 /\ Populated
    /\ hwconfig.size = 2 * SizeofU32
    /\ \E i \in Fetches : log[i].raw = 0

\* The init under way (or the last one) copied the example table with the
\* length field of its second record changed to 5.
ExampleB5 ==
    /\ Len(log) >= 5 /\ IsCopy(5)
    /\ Len(log[5].res) = 8
    /\ log[5].res[1] = ToBig(ATTR_SOME_VALUE) /\ log[5].res[2] = ToBig(1)
    /\ log[5].res[4] = ToBig(ATTR_SOME_MASK) /\ log[5].res[5] = ToBig(5)

\* The validator has returned in the init under way (or the last one).
Validated == pc = "verify_done" \/ \E i \in DOMAIN log : log[i].op = "verify"

(* C16: on the 32-byte example table (record A: key 0, length 1, one value  *)
(* word; record B: key 1, three value words) whose record B declares a      *)
(* length of 5, the validator passes record A (12 bytes), rejects at record *)
(* B, cursor offset 12, with "no room for the data", leaves the 32 bytes of *)
(* the buffer as they were copied, and init frees the buffer, leaves the    *)
(* table Empty and returns -EINVAL.                                         *)
C16_ExampleLengthFive ==
    ExampleB5 =>
        /\ hwconfig.ptr # NULL => Blob = Buf(32, log[5].res)
        /\ pc = "verify_loop" =>
             /\ v.iters <= 1
             /\ v.iters = 1 => (v.recs = << <<0, 12>> >> /\ v.offset = 12)
        /\ Validated =>
             /\ v.ret = -EINVAL
             /\ v.fail = "no_room_data"
             /\ v.offset = 12
             /\ v.recs = << <<0, 12>> >>
             /\ v.reads = {4, 16}
        /\ InitReturned =>
             /\ call.ret = -EINVAL
             /\ Empty
             /\ live = {}
             /\ ~vma.held
             /\ log[Len(log)].op = "kfree" /\ log[Len(log)].arg[1] = 1

\* The example with the value words of the source, rejected and discarded.
C16_Witness ==
    /\ ExampleB5
    /\ log[5].res = ExampleTable(5, << ToBig(8), <<3, B30 - 1>>, <<3, B30 - 1>>,
                                       <<3, 1056964608>> >>)
    /\ InitReturned
    /\ call.ret = -EINVAL
    /\ v.fail = "no_room_data"

(* C19: no buffer is leaked, whatever the order of the init and fini calls *)
(* (init on a held table included): every buffer that kmalloc handed out    *)
(* and that has not been freed is the one the table points to, so at most   *)
(* one buffer is live; and no pointer is freed twice.                       *)
C19_NoLeak ==
    /\ live \subseteq {hwconfig.ptr}
    /\ Cardinality(live) <= 1
    /\ ~badFree

(* ------------------------ claims on the validator ---------------------- *)

\* A run of verify_hwconfig_blob has returned.
VerifyReturned == pc = "verify_done"

\* Number of whole words of buffer b.
NWords(b) == b.bytes \div SizeofU32

\* The length field of the record that starts at word s (counted from 0).
LengthAt(b, s) == b.words[s + 2]

\* The record starting at word s lies within b: its 8-byte header and its
\* 4 * L value bytes, L being the value of its length field (no wrapping).
RecordFits(b, s) ==
    /\ s + 2 <= NWords(b)
    /\ LengthAt(b, s)[1] = 0
    /\ s + 2 + LengthAt(b, s)[2] <= NWords(b)

RecordEnd(b, s) == s + 2 + LengthAt(b, s)[2]

\* b is a tightly packed sequence of records whose sizes sum to its length:
\* there is a set of record starts, from 0 to the end, each record fitting
\* and ending where the next one starts.
WellFormed(b) ==
    /\ b.bytes % SizeofU32 = 0
    /\ \E S \in SUBSET (0..NWords(b)) :
         /\ 0 \in S
         /\ NWords(b) \in S
         /\ \A s \in S \ {NWords(b)} :
              /\ RecordFits(b, s)
              /\ RecordEnd(b, s) \in S
              /\ \A t \in S : ~(s < t /\ t < RecordEnd(b, s))

(* C6: the validator accepts a buffer if and only if its length is a        *)
(* multiple of 4 and it is a tightly packed sequence of records (8-byte     *)
(* header plus 4 * L value bytes, L its length field) whose sizes sum to    *)
(* the length.                                                              *)
C6_AcceptsIffWellFormed == VerifyReturned => ((v.ret = 0) <=> WellFormed(Blob))

\* Every well-formed buffer is accepted, whatever the build.
C6_WellFormedAccepted == (VerifyReturned /\ WellFormed(Blob)) => v.ret = 0

\* Where size_t is 64 bits wide, C6 holds as stated.
C6_On64Bit == longBits = 64 => C6_AcceptsIffWellFormed

\* Every u32 the validator read lies inside the buffer, in the header of a
\* record at a cursor offset with offset + 8 <= length.
ReadsInBounds ==
    \A o \in v.reads : o >= SizeofU32 /\ (o - SizeofU32) + min_item_size <= hwconfig.size

\* The length field read at byte offset o declares a value that ends past
\* the end of the buffer.
DeclaresPastEnd(o) ==
    LET L == Blob.words[(o \div SizeofU32) + 1] IN
    L[1] > 0 \/ (o \div SizeofU32) + 1 + L[2] > NWords(Blob)

(* C7: the validator never reads outside the buffer (each length field is   *)
(* read at a cursor offset with offset + 8 <= length), and a record whose   *)
(* declared length places its value past the end of the buffer is rejected. *)
C7_NoReadOutside ==
    /\ ReadsInBounds
    /\ VerifyReturned =>
         \A o \in v.reads : DeclaresPastEnd(o) => v.ret # 0

\* Where size_t is 64 bits wide, C7 holds as stated.
C7_On64Bit == longBits = 64 => C7_NoReadOutside

\* The length field the validator read last, and its byte offset.
LastRead == CHOOSE o \in v.reads : \A q \in v.reads : q <= o

LastLength == Blob.words[(LastRead \div SizeofU32) + 1]

\* 8 + 4 * L as a number, without any wrapping.
ExactItemSize(L) == BigAdd(ToBig(min_item_size), BigAdd(BigAdd(L, L), BigAdd(L, L)))

\* The length field read at byte offset o is 2^30 or more: 4 * L is 2^32 or
\* more.
HugeLength(o) == Blob.words[(o \div SizeofU32) + 1][1] > 0

(* C17: item_size is 8 + 4 * L without wrap-around for every 32-bit L, and  *)
(* a record whose L is huge (2^30, 2^32 - 1) is rejected, never passed as   *)
(* a short record.                                                          *)
C17_ItemSizeNoWrap ==
    /\ v.reads # {} => v.item_size = ExactItemSize(LastLength)
    /\ VerifyReturned => \A o \in v.reads : HugeLength(o) => v.ret # 0

\* Where size_t is 64 bits wide, C17 holds as stated.
C17_On64Bit == longBits = 64 => C17_ItemSizeNoWrap

\* Whatever the width of size_t, a length of 2^32 - 1 is rejected.
C17_MaxLengthRejected ==
    VerifyReturned => \A o \in v.reads :
        Blob.words[(o \div SizeofU32) + 1] = <<3, B30 - 1>> => v.ret # 0

\* The run on the truncated table has returned.
TruncatedReturned == VerifyReturned /\ h.phase = 2

(* C8: an accepted buffer with its last 1, 2 or 3 bytes removed is rejected *)
(* by the alignment test, before any record is examined.                    *)
C8_TruncatedUnaligned ==
    (TruncatedReturned /\ h.cut \in 1..(SizeofU32 - 1)) =>
        /\ v.ret = -EINVAL
        /\ v.fail = "unaligned"
        /\ v.iters = 0
        /\ v.reads = {}

C8_Witness ==
    /\ TruncatedReturned
    /\ h.cut \in 1..(SizeofU32 - 1)
    /\ Len(h.first.recs) = 2
    /\ v.fail = "unaligned"

\* The final record of the accepted table: its offset and its value bytes.
LastRec == h.first.recs[Len(h.first.recs)]

LastValueBytes == LastRec[2] - min_item_size

\* The truncation removed at least one byte, and fewer than all the bytes,
\* of the final record's value.
CutInLastValue ==
    /\ TruncatedReturned
    /\ Len(h.first.recs) >= 1
    /\ 1 <= h.cut
    /\ h.cut < LastValueBytes

RejectedAtLastRecord ==
    /\ v.ret = -EINVAL
    /\ v.fail = "no_room_data"
    /\ v.offset = LastRec[1]

(* C9 as stated: such a truncation is rejected by the test                  *)
(* `item_size > remaining` at the final record, with no read outside the    *)
(* buffer.                                                                  *)
C9_Original == CutInLastValue => (RejectedAtLastRecord /\ ReadsInBounds)

(* C9 as the code has it: such a truncation by a multiple of 4 bytes is     *)
(* rejected by the test `item_size > remaining` at the final record; one    *)
(* by any other number of bytes is rejected by the alignment test before    *)
(* any record is examined; neither reads outside the buffer.                *)
C9_TruncatedValue ==
    CutInLastValue =>
        /\ h.cut % SizeofU32 = 0 => RejectedAtLastRecord
        /\ h.cut % SizeofU32 # 0 => (v.ret = -EINVAL /\ v.fail = "unaligned" /\ v.reads = {})
        /\ ReadsInBounds

\* Two records, the second with two value words of which one is cut.
C9_Witness ==
    /\ CutInLastValue
    /\ h.cut % SizeofU32 = 0
    /\ LastRec[1] > 0
    /\ RejectedAtLastRecord

\* The scan is under way or over: the locals were initialised at entry.
Scanning == pc \in {"verify_loop", "verify_done"}

\* The iteration that rejected, if one did.
Rejections == IF v.fail \in {"no_room_header", "no_room_data"} THEN 1 ELSE 0

\* What every iteration keeps: offset + remaining is the length, the cursor
\* is inside the buffer, each iteration either rejected or passed a record
\* of at least the 8 bytes of a header, placed at the cursor.
ScanInvariant ==
    /\ v.offset + v.remaining = hwconfig.size
    /\ 0 <= v.offset /\ v.offset <= hwconfig.size
    /\ v.iters = Len(v.recs) + Rejections
    /\ \A k \in DOMAIN v.recs :
         /\ v.recs[k][2] >= min_item_size
         /\ v.recs[k][1] = IF k = 1 THEN 0 ELSE v.recs[k - 1][1] + v.recs[k - 1][2]
    /\ v.recs # <<>> => v.offset = v.recs[Len(v.recs)][1] + v.recs[Len(v.recs)][2]
    /\ (VerifyReturned /\ v.ret = 0) => v.offset = hwconfig.size

(* C20 as stated: each iteration rejects or advances the cursor by at       *)
(* least 8 keeping offset + remaining = length and offset <= length, the    *)
(* scan accepts with offset = length, and the loop runs at most length / 8  *)
(* iterations.                                                              *)
C20_Original ==
    Scanning => (ScanInvariant /\ v.iters * min_item_size <= hwconfig.size)

(* C20 as the code has it: each iteration rejects or advances the cursor    *)
(* by at least 8 keeping offset + remaining = length and offset <= length,  *)
(* the scan accepts with offset = length; at most length / 8 iterations     *)
(* advance, so an accepting scan runs at most length / 8 iterations and a   *)
(* rejecting one at most one more, the one that rejects.                    *)
C20_ScanTerminates ==
    Scanning =>
        /\ ScanInvariant
        /\ Len(v.recs) * min_item_size <= hwconfig.size
        /\ v.iters <= (hwconfig.size \div min_item_size) + 1
        /\ v.ret = 0 => v.iters * min_item_size <= hwconfig.size

\* A scan that passed a record and rejected in the iteration after the
\* length / 8 th.
C20_Witness ==
    /\ VerifyReturned
    /\ v.ret = -EINVAL
    /\ Len(v.recs) >= 1
    /\ v.iters = (hwconfig.size \div min_item_size) + 1

====
